---- MODULE Spec2Model ----
(***************************************************************************)
(* Model of braidlab's entropy_helper MEX function                         *)
(* (+braidlab/@braid/private/entropy_helper.cpp): the renormalised power   *)
(* iteration that estimates the topological entropy of a braid.            *)
(*                                                                         *)
(* Numbers.  A C++ double is modelled as an exact rational <<n, d>> with   *)
(* d > 0 and gcd(n, d) = 1, extended by the IEEE special values            *)
(* NaN = <<0,0>>, +Inf = <<1,0>>, -Inf = <<-1,0>>.  Zero is unsigned.      *)
(* A logarithm (entr, entr0) is a fixed-point number <<v, 1>> counted in   *)
(* micro-nats (1e-6), or one of the special values.  The tolerance is an   *)
(* integer counted in nano-nats (1e-9).                                    *)
(***************************************************************************)
EXTENDS Integers, Sequences, FiniteSets, TLC

\* ------------------------------------------------------------------ bounds
MaxIt == 5
MaxConv == 3

\* -------------------------------------------------------------- arithmetic
NaN == <<0, 0>>
PInf == <<1, 0>>
NInf == <<-1, 0>>
Zero == <<0, 1>>
One == <<1, 1>>

Sgn(i) == IF i > 0 THEN 1 ELSE IF i < 0 THEN -1 ELSE 0
AbsI(i) == IF i < 0 THEN -i ELSE i

RECURSIVE GCD(_, _)
GCD(x, y) == IF y = 0 THEN x ELSE GCD(y, x % y)

\* the reduced rational n/d, d # 0
Rat(n, d) ==
  LET s == IF d < 0 THEN -1 ELSE 1
      g == GCD(AbsI(n), AbsI(d))
  IN  <<(s * n) \div g, (s * d) \div g>>

Num(i) == <<i, 1>>
IsFinite(x) == x[2] # 0
IsNaN(x) == x = NaN

Neg(x) == <<-x[1], x[2]>>
Abs(x) == <<AbsI(x[1]), x[2]>>

Add(x, y) ==
  IF IsFinite(x) /\ IsFinite(y) THEN Rat(x[1] * y[2] + y[1] * x[2], x[2] * y[2])
  ELSE IF IsNaN(x) \/ IsNaN(y) THEN NaN
  ELSE IF IsFinite(x) THEN y
  ELSE IF IsFinite(y) THEN x
  ELSE IF x = y THEN x ELSE NaN

Sub(x, y) == Add(x, Neg(y))

Mul(x, y) ==
  IF IsFinite(x) /\ IsFinite(y) THEN Rat(x[1] * y[1], x[2] * y[2])
  ELSE IF IsNaN(x) \/ IsNaN(y) THEN NaN
  ELSE IF Sgn(x[1]) * Sgn(y[1]) = 0 THEN NaN
  ELSE <<Sgn(x[1]) * Sgn(y[1]), 0>>

\* IEEE division: x/0 is +-Inf for x # 0, 0/0 and Inf/Inf are NaN
Div(x, y) ==
  IF IsNaN(x) \/ IsNaN(y) THEN NaN
  ELSE IF IsFinite(x) /\ IsFinite(y)
       THEN IF y[1] = 0
            THEN (IF x[1] = 0 THEN NaN ELSE <<Sgn(x[1]), 0>>)
            ELSE Rat(x[1] * y[2], x[2] * y[1])
  ELSE IF IsFinite(y) THEN <<IF y[1] < 0 THEN -x[1] ELSE x[1], 0>>
  ELSE IF IsFinite(x) THEN Zero
  ELSE NaN

\* IEEE x < y: false as soon as one side is NaN
Lt(x, y) ==
  IF IsNaN(x) \/ IsNaN(y) THEN FALSE
  ELSE IF IsFinite(x) /\ IsFinite(y) THEN x[1] * y[2] < y[1] * x[2]
  ELSE IF IsFinite(x) THEN y = PInf
  ELSE IF IsFinite(y) THEN x = NInf
  ELSE x = NInf /\ y = PInf

\* std::max(x, y) == (x < y) ? y : x
Max(x, y) == IF Lt(x, y) THEN y ELSE x

\* the largest r in lo..hi with r * r <= k, by bisection
RECURSIVE ISqrtIn(_, _, _)
ISqrtIn(k, lo, hi) ==
  IF lo >= hi THEN lo
  ELSE LET mid == (lo + hi + 1) \div 2
       IN  IF mid * mid <= k THEN ISqrtIn(k, mid, hi) ELSE ISqrtIn(k, lo, mid - 1)

ISqrt(k) == ISqrtIn(k, 0, IF k < 46340 THEN k ELSE 46340)

\* std::sqrt: exact on squares of rationals, otherwise rounded down to a
\* multiple of 1/d
Sqrt(x) ==
  IF IsNaN(x) THEN NaN
  ELSE IF ~IsFinite(x) THEN (IF x = PInf THEN PInf ELSE NaN)
  ELSE IF x[1] < 0 THEN NaN
  ELSE Rat(ISqrt(x[1] * x[2]), x[2])

\* ln(k) in micro-nats, k = 1..64
LnTable ==
  << 0, 693147, 1098612, 1386294, 1609438, 1791759, 1945910, 2079442,
     2197225, 2302585, 2397895, 2484907, 2564949, 2639057, 2708050, 2772589,
     2833213, 2890372, 2944439, 2995732, 3044522, 3091042, 3135494, 3178054,
     3218876, 3258097, 3295837, 3332205, 3367296, 3401197, 3433987, 3465736,
     3496508, 3526361, 3555348, 3583519, 3610918, 3637586, 3663562, 3688879,
     3713572, 3737670, 3761200, 3784190, 3806662, 3828641, 3850148, 3871201,
     3891820, 3912023, 3931826, 3951244, 3970292, 3988984, 4007333, 4025352,
     4043051, 4060443, 4077537, 4094345, 4110874, 4127134, 4143135, 4158883 >>

RECURSIVE LnInt(_)
LnInt(k) == IF k <= 64 THEN LnTable[k] ELSE LnInt(k \div 2) + LnTable[2]

\* std::log: log(0) = -Inf, log(x < 0) = NaN, result in micro-nats
Log(x) ==
  IF IsNaN(x) THEN NaN
  ELSE IF ~IsFinite(x) THEN (IF x = PInf THEN PInf ELSE NaN)
  ELSE IF x[1] < 0 THEN NaN
  ELSE IF x[1] = 0 THEN NInf
  ELSE <<LnInt(x[1]) - LnInt(x[2]), 1>>

\* fabs(e - e0) < tol, e and e0 in micro-nats, tol in nano-nats (tol >= 1):
\* |d| * 1000 < tol  <=>  |d| <= (tol - 1) \div 1000
FabsLess(e, e0, t) ==
  LET d == Sub(e, e0)
  IN  IsFinite(d) /\ AbsI(d[1]) <= (t - 1) \div 1000

RECURSIVE SumSeq(_)
SumSeq(s) == IF s = <<>> THEN Zero ELSE Add(Head(s), SumSeq(Tail(s)))

RECURSIVE MaxSeq(_)
MaxSeq(s) == IF Len(s) = 1 THEN s[1] ELSE Max(Head(s), MaxSeq(Tail(s)))

\* ------------------------------------------------- external collaborators
\* ../../@loop/private/loop_helper.hpp: the three loop-length metrics, pure
\* functions of the half-vectors a, b (sequences of length N/2).

\* intersection number with the real axis
intaxis(N, a, b) ==
  LET m == N \div 2
      cumb(i) == SumSeq(SubSeq(b, 1, i - 1))
      b0 == Neg(MaxSeq([i \in 1..m |->
                 Add(Add(Abs(a[i]), Max(b[i], Zero)), cumb(i))]))
      bn1 == Sub(Neg(b0), SumSeq(b))
      sumb == SumSeq([i \in 1..m |-> Abs(b[i])])
      suma == SumSeq([i \in 1..(m - 1) |-> Abs(Sub(a[i + 1], a[i]))])
  IN  Add(Add(Add(sumb, suma), Add(Abs(a[1]), Abs(a[m]))),
          Add(Abs(b0), Abs(bn1)))

\* minimal-length stand-in that breaks the non-negativity contract on
\* vectors whose coordinates sum to a negative number: the signed sum
minlength(N, a, b) == Add(SumSeq(a), SumSeq(b))

\* squared Euclidean norm
l2norm2(N, a, b) ==
  Add(SumSeq([i \in 1..(N \div 2) |-> Mul(a[i], a[i])]),
      SumSeq([i \in 1..(N \div 2) |-> Mul(b[i], b[i])]))

\* update_rules.hpp: one pass of the generator sequence over the coordinates.
\* Stand-in generators on the flat vector v = a \o b:
\*   1 doubles v[1], -1 negates v[1], 2 rotates v by one place,
\*   any other generator leaves v alone; the empty word is the identity.
ApplyGen(g, v) ==
  IF g = 1 THEN [v EXCEPT ![1] = Mul(Num(2), v[1])]
  ELSE IF g = -1 THEN [v EXCEPT ![1] = Neg(v[1])]
  ELSE IF g = 2 THEN [i \in 1..Len(v) |-> IF i = 1 THEN v[Len(v)] ELSE v[i - 1]]
  ELSE v

RECURSIVE ApplyWord(_, _)
ApplyWord(w, v) == IF w = <<>> THEN v ELSE ApplyWord(Tail(w), ApplyGen(Head(w), v))

\* returns <<a, b>> after the action
update_rules(Ngen, nn, braidword, a, b) ==
  LET v == ApplyWord(SubSeq(braidword, 1, Ngen), a \o b)
      m == Len(a)
  IN  <<SubSeq(v, 1, m), SubSeq(v, m + 1, 2 * m)>>

\* ------------------------------------------------------------ looplength
\* Result of a call: err is "none" or the identifier of the fatal error
\* raised by mexErrMsgIdAndTxt; retval is the local of the same name.
looplength_Unchecked(N, a, b, lengthFlag) ==
  LET rv == IF lengthFlag = 0 THEN intaxis(N, a, b)
            ELSE IF lengthFlag = 1 THEN minlength(N, a, b)
            ELSE IF lengthFlag = 2 THEN Sqrt(l2norm2(N, a, b))
            ELSE Num(-1)
  IN  IF lengthFlag \notin {0, 1, 2}
      THEN [err |-> "badlengthflag", retval |-> rv]
      ELSE [err |-> "none", retval |-> rv]

looplength(N, a, b, lengthFlag) ==
  LET rv == IF lengthFlag = 0 THEN intaxis(N, a, b)
            ELSE IF lengthFlag = 1 THEN minlength(N, a, b)
            ELSE IF lengthFlag = 2 THEN Sqrt(l2norm2(N, a, b))
            ELSE Num(-1)
  IN  IF lengthFlag \notin {0, 1, 2}
      THEN [err |-> "badlengthflag", retval |-> rv]
      ELSE IF Lt(rv, Zero)
      THEN [err |-> "badlength", retval |-> rv]
      ELSE [err |-> "none", retval |-> rv]

\* ------------------------------------------------------------------ inputs
V(s) == [i \in 1..Len(s) |-> Num(s[i])]

\* P_LOOP_IN: an M-by-N matrix, pr its data
Loops ==
  { [M |-> 1, N |-> 2, pr |-> V(<<1, 0>>)],
    [M |-> 1, N |-> 2, pr |-> V(<<0, 0>>)],
    [M |-> 1, N |-> 2, pr |-> V(<<0, 2>>)],
    [M |-> 1, N |-> 2, pr |-> V(<<-1, 0>>)],
    [M |-> 1, N |-> 4, pr |-> V(<<1, 0, 0, 0>>)],
    [M |-> 1, N |-> 4, pr |-> V(<<0, 1, 0, 0>>)],
    [M |-> 1, N |-> 4, pr |-> V(<<0, 0, 1, 0>>)],
    [M |-> 1, N |-> 3, pr |-> V(<<1, 0, 0>>)],
    [M |-> 2, N |-> 2, pr |-> V(<<1, 0, 0, 1>>)] }

\* P_BRAID: generator sequences
Braids == { <<>>, <<1>>, <<2>>, <<1, 2>>, <<-1>>, <<-1, 2>> }

\* P_LENGTHTYPE
LengthFlags == {0, 1, 2, 5}

\* P_TOL in nano-nats: 1e-9, 0.5, 2.0
Tols == {1, 500000000, 2000000000}

\* value of a local that has been declared and not yet assigned (never read)
Indeterminate == <<0, -1>>

Entr0Init_Zero == <<0, 1>>

\* entr0 = -1 (micro-nats)
Entr0Init == <<-1000000, 1>>

\* ------------------------------------------------------------------- state
VARIABLES P_BRAID, P_LOOP_IN, maxit, nconvreq, tol, lengthFlag, isFundamental,
          a, b, it, nconv, entr, entr0, discount, currentLength,
          retval, pc, err, plhs, trace

vars == <<P_BRAID, P_LOOP_IN, maxit, nconvreq, tol, lengthFlag, isFundamental,
          a, b, it, nconv, entr, entr0, discount, currentLength,
          retval, pc, err, plhs, trace>>

inputs == <<P_BRAID, P_LOOP_IN, maxit, nconvreq, tol, lengthFlag, isFundamental>>

N == P_LOOP_IN.N
Ngen == Len(P_BRAID)
n == N \div 2 + 2

\* the call is entered with its arguments; no local is assigned yet
Init ==
  /\ P_BRAID \in Braids
  /\ P_LOOP_IN \in Loops
  /\ maxit \in 1..MaxIt
  /\ nconvreq \in 1..MaxConv
  /\ tol \in Tols
  /\ lengthFlag \in LengthFlags
  /\ isFundamental \in BOOLEAN
  /\ a = <<>>
  /\ b = <<>>
  /\ it = 0
  /\ nconv = 0
  /\ entr = Indeterminate
  /\ entr0 = Indeterminate
  /\ discount = Indeterminate
  /\ currentLength = Indeterminate
  /\ retval = Indeterminate
  /\ pc = "entry"
  /\ err = "none"
  /\ plhs = <<>>
  /\ trace = <<>>

InitialDiscount_NoFundamental(nn, flag, fund) ==
  IF flag = 0 THEN Num(nn - 1) ELSE Zero

\* discount = n - (isFundamental ? 1. : 0.) - 1. under metric 0, else 0.
InitialDiscount(nn, flag, fund) ==
  IF flag = 0 THEN Num(nn - (IF fund THEN 1 ELSE 0) - 1) ELSE Zero

\* lines 87-131: shape validation, 1-indexed copies, initial values
Setup ==
  /\ pc = "entry"
  /\ IF P_LOOP_IN.M # 1 \/ N % 2 # 0
     THEN /\ pc' = "error"
          /\ err' = "badarg"
          /\ UNCHANGED <<a, b, nconv, entr0, discount>>
     ELSE /\ a' = [k \in 1..(N \div 2) |-> P_LOOP_IN.pr[k]]
          /\ b' = [k \in 1..(N \div 2) |-> P_LOOP_IN.pr[k + N \div 2]]
          /\ nconv' = 0
          /\ entr0' = Entr0Init
          /\ discount' = InitialDiscount(n, lengthFlag, isFundamental)
          /\ pc' = "length"
          /\ err' = "none"
  /\ UNCHANGED <<inputs, it, entr, currentLength, retval, plhs, trace>>

ForTest_Strict(i, mx) == i < mx

\* it <= maxit
ForTest(i, mx) == i <= mx

\* line 133 and the for-initialisation of line 135
InitialLength ==
  /\ pc = "length"
  /\ LET r == looplength(N, a, b, lengthFlag)
     IN  /\ retval' = r.retval
         /\ IF r.err # "none"
            THEN /\ pc' = "error"
                 /\ err' = r.err
                 /\ UNCHANGED <<currentLength, it>>
            ELSE /\ currentLength' = Sub(r.retval, discount)
                 /\ it' = 1
                 /\ pc' = IF ForTest(1, maxit) THEN "loop" ELSE "exit"
                 /\ err' = "none"
  /\ UNCHANGED <<inputs, a, b, nconv, entr, entr0, discount, plhs, trace>>

Enough_Strict(nc, req) == nc > req

\* nconv >= nconvreq
Enough(nc, req) == nc >= req

NextNconv_Decrement(nc, stable) ==
  IF stable THEN nc + 1 ELSE IF nc > 0 THEN nc - 1 ELSE nc

\* the counter after the comparison of lines 156-172
NextNconv(nc, stable) == IF stable THEN nc + 1 ELSE IF nc > 0 THEN 0 ELSE nc

\* lines 136-175 and the ++it / it <= maxit of line 135: one iteration
Iterate ==
  /\ pc = "loop"
  /\ LET a1 == [k \in 1..(N \div 2) |-> Div(a[k], currentLength)]
         b1 == [k \in 1..(N \div 2) |-> Div(b[k], currentLength)]
         d1 == Div(discount, currentLength)
         ab == update_rules(Ngen, n, P_BRAID, a1, b1)
         r == looplength(N, ab[1], ab[2], lengthFlag)
         cl == Sub(r.retval, d1)
         e == Log(cl)
         stable == FabsLess(e, entr0, tol)
         nc == NextNconv(nconv, stable)
     IN  /\ a' = ab[1]
         /\ b' = ab[2]
         /\ discount' = d1
         /\ retval' = r.retval
         /\ IF r.err # "none"
            THEN /\ pc' = "error"
                 /\ err' = r.err
                 /\ UNCHANGED <<currentLength, entr, entr0, nconv, it, trace>>
            ELSE /\ currentLength' = cl
                 /\ entr' = e
                 /\ trace' = Append(trace, e)
                 /\ nconv' = nc
                 /\ err' = "none"
                 /\ IF stable /\ Enough(nc, nconvreq)
                    THEN /\ pc' = "exit"
                         /\ UNCHANGED <<it, entr0>>
                    ELSE /\ entr0' = e
                         /\ it' = it + 1
                         /\ pc' = IF ForTest(it + 1, maxit) THEN "loop" ELSE "exit"
  /\ UNCHANGED <<inputs, plhs>>

Iterates_Previous(i) == i - 1

\* P_ITERATES = mxCreateDoubleScalar(it)
Iterates(i) == i

\* lines 177-186: the three outputs
Return ==
  /\ pc = "exit"
  /\ plhs' = <<entr, Iterates(it), a \o b>>
  /\ pc' = "done"
  /\ UNCHANGED <<inputs, a, b, it, nconv, entr, entr0, discount, currentLength,
                 retval, err, trace>>

Next == Setup \/ InitialLength \/ Iterate \/ Return

Spec == Init /\ [][Next]_vars

TypeOK ==
  /\ pc \in {"entry", "length", "loop", "exit", "done", "error"}
  /\ err \in {"none", "badarg", "badlengthflag", "badlength"}
  /\ nconv \in 0..MaxConv
  /\ it \in 0..(MaxIt + 1)

\* ------------------------------------------------------------ properties
Stopped == pc \in {"exit", "done"}
Running == pc \in {"loop", "exit", "done"}

\* the comparison of the j-th computed log-growth value with the (j-1)-th
PairStable(j) == FabsLess(trace[j], trace[j - 1], tol)

\* the nconvreq most recent differences between computed values at iteration k
StreakAt(k) ==
  /\ k >= nconvreq + 1
  /\ \A j \in (k - nconvreq + 1)..k : PairStable(j)

\* C1: the loop stops by convergence at iteration k exactly when k is the
\* first iteration whose nconvreq most recent differences between computed
\* log-growth values are all below tol; a stop never rests on a comparison
\* with a value that was not computed.
C1_ConvergedOnComputedPairs ==
  /\ (Stopped /\ nconv >= nconvreq) => (it = Len(trace) /\ StreakAt(it))
  /\ \A k \in 1..Len(trace) :
       StreakAt(k) => (k = Len(trace) /\ Stopped /\ nconv >= nconvreq /\ it = k)

\* C2: in an iteration whose difference is at or above tol the counter
\* becomes (or stays) zero, the loop is not left by the convergence break and
\* the iteration index advances to the next iteration, which runs whenever
\* one remains within maxit; in a stable iteration the counter grows by
\* exactly one.
C2_CounterReset ==
  [][ (pc = "loop" /\ pc' # "error") =>
        IF FabsLess(entr', entr0, tol)
        THEN nconv' = nconv + 1
        ELSE /\ nconv' = 0
             /\ it' = it + 1
             /\ entr0' = entr'
             /\ pc' = IF it < maxit THEN "loop" ELSE "exit" ]_vars

\* two stable iterations followed by a non-stable one, the search going on
C2_Witness ==
  /\ pc = "loop"
  /\ nconvreq = 3
  /\ Len(trace) >= 4
  /\ PairStable(Len(trace) - 2)
  /\ PairStable(Len(trace) - 1)
  /\ ~PairStable(Len(trace))
  /\ nconv = 0

\* C3: a call that runs all maxit iterations without reaching nconvreq
\* returns maxit + 1; a call that stops by convergence returns the index of
\* the iteration at which it stopped, in 1..maxit.
C3_IterationCount ==
  pc = "done" =>
    /\ nconv < nconvreq => (plhs[2] = maxit + 1 /\ Len(trace) = maxit)
    /\ nconv >= nconvreq => (plhs[2] \in 1..maxit /\ plhs[2] = Len(trace))
    /\ plhs[2] = maxit + 1 => nconv < nconvreq

C3_Witness ==
  /\ pc = "done"
  /\ maxit >= 2
  /\ nconv = 0
  /\ plhs[2] = maxit + 1

\* C4 as stated: non-convergence returns maxit, and a returned maxit means
\* the streak was not reached.
C4_Original ==
  pc = "done" =>
    /\ nconv < nconvreq => plhs[2] = maxit
    /\ plhs[2] = maxit => nconv < nconvreq

\* C4 amended: non-convergence is signalled by a returned iteration count of
\* maxit + 1, and a returned maxit + 1 means the streak was not reached.
C4_NonConvergenceSignal ==
  pc = "done" => (nconv < nconvreq <=> plhs[2] = maxit + 1)

\* the budget runs out in the middle of a streak
C4_Witness ==
  /\ pc = "done"
  /\ nconv > 0
  /\ nconv < nconvreq
  /\ plhs[2] = maxit + 1

\* every pair of successive computed log-growth values compares as stable
AllPairsStable == \A j \in 2..Len(trace) : PairStable(j)

\* C5 as stated: identity action, every pair stable, maxit >= nconvreq:
\* convergence within nconvreq iterations.
C5_Original ==
  (pc = "done" /\ P_BRAID = <<>> /\ AllPairsStable /\ maxit >= nconvreq) =>
    (nconv >= nconvreq /\ plhs[2] <= nconvreq)

\* C5 amended: identity action, every pair stable, maxit >= nconvreq + 1:
\* convergence within nconvreq + 1 iterations.
C5_ConvergesWithinStreakPlusOne ==
  (pc = "done" /\ P_BRAID = <<>> /\ AllPairsStable /\ maxit >= nconvreq + 1) =>
    (nconv >= nconvreq /\ plhs[2] <= nconvreq + 1)

C5_Witness ==
  /\ pc = "done"
  /\ P_BRAID = <<>>
  /\ AllPairsStable
  /\ nconvreq = 3
  /\ maxit >= 4
  /\ plhs[2] = 4

\* the end-to-end scenario
IsScenario ==
  /\ P_BRAID = <<>>
  /\ P_LOOP_IN = [M |-> 1, N |-> 2, pr |-> <<One, Zero>>]
  /\ lengthFlag = 2
  /\ maxit = 5
  /\ nconvreq = 1
  /\ tol = 1
  /\ isFundamental = FALSE

\* C6: in the scenario the length is 1 and entr is 0 at every iteration,
\* iteration 1 is not counted as stable, the call stops at iteration 2 and
\* returns entropy 0, iteration count 2 and the vector [1, 0].
C6_EndToEnd ==
  IsScenario =>
    /\ pc # "error"
    /\ Running => currentLength = One
    /\ \A j \in 1..Len(trace) : trace[j] = Zero
    /\ Len(trace) = 1 => (nconv = 0 /\ pc = "loop" /\ it = 2)
    /\ Len(trace) <= 2
    /\ Stopped => (it = 2 /\ nconv = 1)
    /\ pc = "done" => plhs = <<Zero, 2, <<One, Zero>>>>

C6_Witness == IsScenario /\ pc = "done" /\ plhs[2] = 2

\* C7 as stated: under metric 0 the discount starts at (m/2 + 2) - 1, or
\* (m/2 + 2) - 2 for a fundamental vector, m = N/2 (both sides doubled).
C7_Original ==
  (pc = "length" /\ lengthFlag = 0) =>
    Mul(Num(2), discount) =
      Num((N \div 2) + 4 - 2 * (IF isFundamental THEN 2 ELSE 1))

\* C7 amended: under metric 0 the discount starts at (m + 2) - 1, or
\* (m + 2) - 2 for a fundamental vector: the number of marked points is
\* n = m + 2, m = N/2 the length of a half-vector.
C7_InitialDiscount ==
  (pc = "length" /\ lengthFlag = 0) =>
    discount = Num(((N \div 2) + 2) - (IF isFundamental THEN 2 ELSE 1))

C7_Witness ==
  /\ pc = "length"
  /\ lengthFlag = 0
  /\ isFundamental
  /\ N = 4
  /\ discount = Num(2)

\* C8: each iteration divides the discount by the divisor of the coordinates
\* (the currentLength of the previous step), and for every metric other than
\* 0 the discount is 0 throughout, so currentLength is the raw length.
C8_DiscountRescale ==
  [][ /\ pc = "loop" =>
           /\ discount' = Div(discount, currentLength)
           /\ P_BRAID = <<>> =>
                \A k \in 1..(N \div 2) :
                   /\ a'[k] = Div(a[k], currentLength)
                   /\ b'[k] = Div(b[k], currentLength)
      /\ (lengthFlag # 0 /\ pc' \in {"length", "loop", "exit", "done"}) =>
           /\ discount' = Zero
           /\ pc' # "length" => currentLength' = retval' ]_vars

\* C9: currentLength >= 0 whenever no fatal error was raised.
C9_NonNegativeLength ==
  Running => (currentLength = Zero \/ Lt(Zero, currentLength))

\* C10: a fatal condition leaves the call without any output and nothing
\* runs after it; a bad shape or an unrecognized metric is reported before
\* the first iteration; a negative metric value is reported by the call
\* that produced it, unclamped, and no log-growth value is derived from it.
C10_FatalAborts ==
  [][ /\ pc # "error"
      /\ pc' = "error" =>
           /\ plhs' = <<>>
           /\ trace' = trace
           /\ it' = it
           /\ err' \in {"badarg", "badlengthflag"} => (pc \in {"entry", "length"} /\ trace' = <<>>)
      /\ (P_LOOP_IN.M # 1 \/ N % 2 # 0) => (pc' = "error" /\ err' = "badarg")
      /\ (P_LOOP_IN.M = 1 /\ N % 2 = 0 /\ lengthFlag \notin {0, 1, 2} /\ pc = "length")
           => (pc' = "error" /\ err' = "badlengthflag")
      /\ (lengthFlag \in {0, 1, 2} /\ Lt(retval', Zero))
           => (pc' = "error" /\ err' = "badlength")
      /\ pc' # "error" => err' = "none" ]_vars

\* a negative length met in the second iteration
C10_Witness ==
  /\ pc = "error"
  /\ err = "badlength"
  /\ Len(trace) = 1
  /\ Lt(retval, Zero)
  /\ plhs = <<>>

====
